---- MODULE Spec2Model ----
(***************************************************************************)
(* Finite-shoe blackjack EV engine of src/src/App.tsx.                     *)
(*                                                                         *)
(* Numbers: a machine with the switch ieee computes in binary64, as the     *)
(* code does: a double is <<neg, M, e>>, and every division, product and    *)
(* sum is rounded to the nearest double, ties to even. Without the switch   *)
(* the same code is run on the exact rationals <<n, d>> in lowest terms     *)
(* (d > 0) that the doubles stand for. Number.NEGATIVE_INFINITY is          *)
(* <<-1, 0>> in both.                                                       *)
(* The engine is a set of mutually recursive functions over one mutable     *)
(* shoe. Here a call runs on a machine m: the shoe, the banker memo, the    *)
(* player cache and the call stack, one frame per active call with its      *)
(* locals and its position pc. Step executes the code between two call      *)
(* boundaries of the frame on top; a call is run to completion by Run.      *)
(***************************************************************************)
EXTENDS Integers, Sequences, FiniteSets, TLC

\* ---------------------------------------------------------------- numbers

RECURSIVE GCD(_, _)
GCD(a, b) == IF b = 0 THEN a ELSE GCD(b, a % b)

Abs(x) == IF x < 0 THEN 0 - x ELSE x

\* n/d in lowest terms with d >= 0; x/0 is an infinity, 0/0 is NaN <<0, 0>>
Norm(n, d) ==
  LET g == GCD(Abs(n), Abs(d))
      sign == IF d < 0 THEN -1 ELSE 1
  IN IF g = 0 THEN <<0, 0>> ELSE <<(sign * n) \div g, (sign * d) \div g>>

Q(n, d) == Norm(n, d)
Zero == <<0, 1>>
One == <<1, 1>>
MinusOne == <<-1, 1>>
MinusHalf == <<-1, 2>>
NEGATIVE_INFINITY == <<-1, 0>>

\* ------------------------------------------------------ binary64 numbers

\* A natural number of any size: its digits in base 2^14, lowest first, no
\* zero on top; 0 is <<>>. (Products of two digits stay within 32 bits.)
Limb == 16384
LimbBits == 14

At(a, i) == IF i <= Len(a) THEN a[i] ELSE 0

RECURSIVE TrimTop(_)
TrimTop(a) ==
  IF Len(a) > 0 /\ a[Len(a)] = 0 THEN TrimTop(SubSeq(a, 1, Len(a) - 1)) ELSE a

RECURSIVE SumFrom(_, _, _, _)
SumFrom(a, b, i, c) ==
  IF i > Len(a) /\ i > Len(b) THEN (IF c = 0 THEN <<>> ELSE <<c>>)
  ELSE LET t == At(a, i) + At(b, i) + c
       IN <<t % Limb>> \o SumFrom(a, b, i + 1, t \div Limb)

BigAdd(a, b) == SumFrom(a, b, 1, 0)

\* a - b for a >= b
RECURSIVE DiffFrom(_, _, _, _)
DiffFrom(a, b, i, w) ==
  IF i > Len(a) THEN <<>>
  ELSE LET t == a[i] - At(b, i) - w
       IN <<(t + Limb) % Limb>> \o DiffFrom(a, b, i + 1, IF t < 0 THEN 1 ELSE 0)

BigSub(a, b) == TrimTop(DiffFrom(a, b, 1, 0))

RECURSIVE LessFrom(_, _, _)
LessFrom(a, b, i) ==
  IF i = 0 THEN FALSE
  ELSE IF a[i] # b[i] THEN a[i] < b[i]
  ELSE LessFrom(a, b, i - 1)

BigLess(a, b) == IF Len(a) # Len(b) THEN Len(a) < Len(b) ELSE LessFrom(a, b, Len(a))

\* a * k for a digit k
RECURSIVE ScaleFrom(_, _, _, _)
ScaleFrom(a, k, i, c) ==
  IF i > Len(a) THEN (IF c = 0 THEN <<>> ELSE <<c>>)
  ELSE LET t == a[i] * k + c
       IN <<t % Limb>> \o ScaleFrom(a, k, i + 1, t \div Limb)

BigScale(a, k) == TrimTop(ScaleFrom(a, k, 1, 0))

RECURSIVE MulFrom(_, _, _)
MulFrom(a, b, i) ==
  IF i > Len(b) THEN <<>>
  ELSE BigAdd(BigScale(a, b[i]), <<0>> \o MulFrom(a, b, i + 1))

BigMul(a, b) == TrimTop(MulFrom(a, b, 1))

\* floor(a / d) and a mod d for 0 < d < 2^14
RECURSIVE DivFrom(_, _, _, _)
DivFrom(a, d, i, rem) ==
  IF i = 0 THEN <<>>
  ELSE LET t == rem * Limb + a[i]
       IN Append(DivFrom(a, d, i - 1, t % d), t \div d)

BigDiv(a, d) == TrimTop(DivFrom(a, d, Len(a), 0))

RECURSIVE ModFrom(_, _, _, _)
ModFrom(a, d, i, rem) ==
  IF i = 0 THEN rem ELSE ModFrom(a, d, i - 1, (rem * Limb + a[i]) % d)

BigMod(a, d) == ModFrom(a, d, Len(a), 0)

\* a * 2^k and floor(a / 2^k)
ShiftLeft(a, k) ==
  IF a = <<>> THEN <<>>
  ELSE [i \in 1..(k \div LimbBits) |-> 0] \o BigScale(a, 2^(k % LimbBits))

ShiftRight(a, k) ==
  IF k \div LimbBits >= Len(a) THEN <<>>
  ELSE BigDiv(SubSeq(a, k \div LimbBits + 1, Len(a)), 2^(k % LimbBits))

BitLen(a) ==
  IF a = <<>> THEN 0
  ELSE LimbBits * (Len(a) - 1)
         + (CHOOSE k \in 1..LimbBits : 2^(k - 1) <= a[Len(a)] /\ a[Len(a)] < 2^k)

\* A finite double is <<neg, M, e>>: the number (-1)^neg * M * 2^e with
\* 2^52 <= M < 2^53, or +0 as <<FALSE, <<>>, 0>> (a zero result is kept as +0;
\* the exponent range is never left by the values of the engine).
Precision == 53
DZero == <<FALSE, <<>>, 0>>
IsDouble(x) == Len(x) = 3

\* The double nearest to (-1)^neg * (M + t) * 2^e, ties to even, where t is 0,
\* or some 0 < t < 1 when sticky (then M has more than 53 bits). M is cut by
\* its s lowest bits: kept is what stays, rem what is cut, half is 2^(s-1).
NearestOf(kept, rem, half, sticky) ==
  IF BigLess(half, rem) \/ (rem = half /\ (sticky \/ kept[1] % 2 = 1))
  THEN BigAdd(kept, <<1>>)
  ELSE kept

Nearest(kept, M, s, sticky) ==
  NearestOf(kept, BigSub(M, ShiftLeft(kept, s)), ShiftLeft(<<1>>, s - 1), sticky)

Rounded(neg, e, r) ==
  IF BitLen(r) > Precision THEN <<neg, ShiftRight(r, 1), e + 1>> ELSE <<neg, r, e>>

RoundTo(neg, M, e, sticky, s) ==
  IF M = <<>> THEN DZero
  ELSE IF s <= 0 THEN <<neg, ShiftLeft(M, 0 - s), e + s>>
  ELSE Rounded(neg, e + s, Nearest(ShiftRight(M, s), M, s, sticky))

Round(neg, M, e, sticky) == RoundTo(neg, M, e, sticky, BitLen(M) - Precision)

\* n / d for integers |n| < 2^14 and 0 < d < 2^14, correctly rounded
DivRound(neg, num, d) ==
  Round(neg, BigDiv(num, d), 0 - 5 * LimbBits, BigMod(num, d) # 0)

DDiv(n, d) ==
  IF n = 0 THEN DZero ELSE DivRound(n < 0, ShiftLeft(<<Abs(n)>>, 5 * LimbBits), d)

DNeg(x) == IF x = DZero THEN x ELSE <<~x[1], x[2], x[3]>>

DMul(x, y) ==
  IF x = DZero \/ y = DZero THEN DZero
  ELSE Round(x[1] # y[1], BigMul(x[2], y[2]), x[3] + y[3], FALSE)

\* the mantissas of x and y as multiples of 2^e
Aligned(x, y, e) == [i \in 1..2 |-> ShiftLeft(<<x, y>>[i][2], <<x, y>>[i][3] - e)]

AbsDiff(a, b) == IF BigLess(a, b) THEN BigSub(b, a) ELSE BigSub(a, b)

AddMag(nx, ny, ab, e) ==
  IF nx # ny /\ ab[1] = ab[2] THEN DZero
  ELSE Round(IF nx = ny \/ BigLess(ab[2], ab[1]) THEN nx ELSE ny,
             IF nx = ny THEN BigAdd(ab[1], ab[2]) ELSE AbsDiff(ab[1], ab[2]),
             e, FALSE)

AddAt(x, y, e) == AddMag(x[1], y[1], Aligned(x, y, e), e)

DAdd(x, y) ==
  IF x = DZero THEN y
  ELSE IF y = DZero THEN x
  ELSE AddAt(x, y, IF x[3] < y[3] THEN x[3] ELSE y[3])

\* |x| < |y|
MagLess(x, y) ==
  IF y = DZero THEN FALSE
  ELSE IF x = DZero THEN TRUE
  ELSE IF x[3] # y[3] THEN x[3] < y[3]
  ELSE BigLess(x[2], y[2])

DLess(x, y) ==
  IF x[1] # y[1] THEN x[1]
  ELSE MagLess(IF x[1] THEN y ELSE x, IF x[1] THEN x ELSE y)

\* the double of a numeric literal of the code (0, 1, -1, -0.5, 2, 1.5, 1.2)
ToDouble(x) == IF IsDouble(x) THEN x ELSE DDiv(x[1], x[2])

Doubles(x, y) == [i \in 1..2 |-> ToDouble(<<x, y>>[i])]

DSum(xy) == DAdd(xy[1], xy[2])
DProduct(xy) == DMul(xy[1], xy[2])
DBelow(xy) == DLess(xy[1], xy[2])

\* ------------------------------------------------------------ arithmetic

\* +, unary -, -, * and < of the code: on doubles if an operand is one
Add(x, y) ==
  IF IsDouble(x) \/ IsDouble(y) THEN DSum(Doubles(x, y))
  ELSE Norm(x[1] * y[2] + y[1] * x[2], x[2] * y[2])

Neg(x) == IF IsDouble(x) THEN DNeg(x) ELSE <<0 - x[1], x[2]>>

Sub(x, y) == Add(x, Neg(y))

Mul(x, y) ==
  IF IsDouble(x) \/ IsDouble(y) THEN DProduct(Doubles(x, y))
  ELSE Norm(x[1] * y[1], x[2] * y[2])

Lt(x, y) ==
  IF ~IsDouble(x) /\ ~IsDouble(y) THEN x[1] * y[2] < y[1] * x[2]
  ELSE IF x = NEGATIVE_INFINITY THEN TRUE
  ELSE IF y = NEGATIVE_INFINITY THEN FALSE
  ELSE DBelow(Doubles(x, y))

Le(x, y) == ~Lt(y, x)

\* ------------------------------------------------------- types & constants

RANKS == <<"A", "2", "3", "4", "5", "6", "7", "8", "9", "10", "J", "Q", "K">>
RankSet == {RANKS[i] : i \in 1..Len(RANKS)}

\* the ranks rankValue gives 10
TenRanks == {"10", "J", "Q", "K"}

\* parseInt(r, 10) on the numeral ranks
ParseRank(r) ==
  CASE r = "2" -> 2 [] r = "3" -> 3 [] r = "4" -> 4 [] r = "5" -> 5
    [] r = "6" -> 6 [] r = "7" -> 7 [] r = "8" -> 8 [] r = "9" -> 9
    [] r = "10" -> 10

rankValue(r) ==
  IF r = "A" THEN 11
  ELSE IF r = "J" \/ r = "Q" \/ r = "K" \/ r = "10" THEN 10
  ELSE ParseRank(r)

DEFAULT_RULES ==
  [decks |-> 6, dealerHitsSoft17 |-> TRUE, blackjackPays |-> <<3, 2>>,
   lateSurrender |-> TRUE, doubleAllowed |-> TRUE, doubleAfterSplit |-> TRUE,
   resplitPairs |-> 3, splitAcesOneCardOnly |-> TRUE, resplitAces |-> FALSE]

\* ------------------------------------------------------------ hand utilities

RECURSIVE NonAceTotal(_, _)
NonAceTotal(cards, i) ==
  IF i > Len(cards) THEN 0
  ELSE (IF cards[i] = "A" THEN 0 ELSE rankValue(cards[i])) + NonAceTotal(cards, i + 1)

AceCount(cards) == Cardinality({i \in 1..Len(cards) : cards[i] = "A"})

\* the loop counting every ace as 1
PlaceAcesHard(best, aces, i) == best + aces

\* the loop of lines 44-48: place 11 while the remaining aces still fit as 1
RECURSIVE PlaceAces(_, _, _)
PlaceAces(best, aces, i) ==
  IF i >= aces THEN best
  ELSE IF best + 11 <= 21 - (aces - 1 - i)
       THEN PlaceAces(best + 11, aces, i + 1)
       ELSE PlaceAces(best + 1, aces, i + 1)

handTotals(cards) ==
  LET total == NonAceTotal(cards, 1)
      aces == AceCount(cards)
      best == PlaceAces(total, aces, 0)
      isSoft == aces > 0 /\ best <= 21 /\ (best - total - (aces - 1)) = 11
      hard == total + aces * 1
  IN [hard |-> hard, isSoft |-> isSoft, best |-> IF isSoft THEN best ELSE hard]

Includes(cards, r) == \E i \in 1..Len(cards) : cards[i] = r

isBlackjack(cards) ==
  Len(cards) = 2 /\ handTotals(cards).best = 21 /\ Includes(cards, "A")

\* no hand counted as bust
neverBust(cards) == FALSE

isBust(cards) == handTotals(cards).best > 21

normalizeRank(r) == IF r = "J" \/ r = "Q" \/ r = "K" THEN "10" ELSE r

canSplit(cards) ==
  Len(cards) = 2 /\ normalizeRank(cards[1]) = normalizeRank(cards[2])

\* ------------------------------------------------------------ finite shoe

\* counts is an object holding all 13 ranks: the function is built in full
makeFullShoe(decks) == [r \in RankSet |-> 4 * decks] @@ <<>>

RECURSIVE SumCounts(_, _)
SumCounts(s, i) == IF i > Len(RANKS) THEN 0 ELSE s[RANKS[i]] + SumCounts(s, i + 1)

shoeTotal(s) == SumCounts(s, 1)

MinCount(s) == CHOOSE c \in {s[r] : r \in RankSet} : \A q \in RankSet : c <= s[q]
MaxCount(s) == CHOOSE c \in {s[r] : r \in RankSet} : \A q \in RankSet : c >= s[q]

\* The machine a call runs on:
\*   shoe  : the Shoe object
\*   memo  : the Map of the running dealerOutcomeProbs
\*   cache : the Map of the running actionEVsFinite
\*   stack : the active calls, the running one last
\*   ret   : the value the last finished call returned
\* and what the run did to the shoe so far:
\*   held  : cards drawn and not yet undrawn
\*   t0    : the shoe total when the run began
\*   lo,hi : smallest and largest count any rank had in any state so far
\*   zd    : a draw was executed on a rank whose count was not positive
\*   imb   : some state had total # t0 - held
\*   draws : draws executed so far
\*   steps : steps executed so far
\*   deep  : the most calls of bestActionEV and probsFor active at once below
\*           the call that began the run
\*   ahead : some state had more of them active than cards held
\*   xb    : bestActionEV or probsFor drew a card for a hand over 21
\*   sd    : the largest splitDepth of a childCtx built by a split so far
\*   splits, aceSplits : the most split loops (of a pair of aces) that were
\*           waiting for a sub-hand at once, one inside the other
\* and two switches of the model:
\*   uncached : cache.set stores nothing, so every value is computed anew
\*              (off in every run of the program)
\*   ieee     : the numbers are doubles, every operation rounded; off, the
\*              numbers are the exact rationals
Start(s) ==
  [shoe |-> s, memo |-> <<>>, cache |-> <<>>, stack |-> <<>>, ret |-> Zero,
   held |-> 0, t0 |-> shoeTotal(s), lo |-> MinCount(s), hi |-> MaxCount(s),
   zd |-> FALSE, imb |-> FALSE, draws |-> 0, steps |-> 0,
   deep |-> 0, ahead |-> FALSE, xb |-> FALSE,
   sd |-> 0, splits |-> 0, aceSplits |-> 0, uncached |-> FALSE, ieee |-> FALSE]

\* shoe[r] / tot
Quot(m, n, d) == IF m.ieee THEN DDiv(n, d) ELSE Q(n, d)

\* s[r]--
draw(m, r) ==
  LET s == [m.shoe EXCEPT ![r] = @ - 1]
  IN [m EXCEPT !.shoe = s, !.held = m.held + 1, !.draws = m.draws + 1,
               !.lo = IF s[r] < m.lo THEN s[r] ELSE m.lo,
               !.zd = m.zd \/ m.shoe[r] <= 0,
               !.imb = m.imb \/ shoeTotal(s) # m.t0 - (m.held + 1)]

\* undraw that forgets the increment
undrawLost(m, r) == [m EXCEPT !.held = m.held - 1]

\* s[r]++
undraw(m, r) ==
  LET s == [m.shoe EXCEPT ![r] = @ + 1]
  IN [m EXCEPT !.shoe = s, !.held = m.held - 1,
               !.hi = IF s[r] > m.hi THEN s[r] ELSE m.hi,
               !.imb = m.imb \/ shoeTotal(s) # m.t0 - (m.held - 1)]

\* initShoeMulti: every shown card removed from a full shoe, clamped at zero
remove(s, r) == IF s[r] > 0 THEN [s EXCEPT ![r] = @ - 1] ELSE s

\* for (const c of h) remove(c), the shoe after each card computed before the
\* next card is looked at
RECURSIVE RemoveHand(_, _, _)
RemoveHand(s, h, i) ==
  IF i > Len(h) THEN s
  ELSE LET t == remove(s, h[i]) IN <<t, RemoveHand(t, h, i + 1)>>[2]

RECURSIVE RemoveHands(_, _, _)
RemoveHands(s, hands, i) ==
  IF i > Len(hands) THEN s
  ELSE LET t == RemoveHand(s, hands[i], 1) IN <<t, RemoveHands(t, hands, i + 1)>>[2]

\* the shoe with the hands removed and the upcard left in
initShoeHands(decks, hands, dealerUp) ==
  RemoveHands(makeFullShoe(decks), hands, 1)

initShoeMulti(decks, hands, dealerUp) ==
  remove(RemoveHands(makeFullShoe(decks), hands, 1), dealerUp)

\* the loop that never skips the ace
NextRankAce(s, i) ==
  LET live == {j \in i..Len(RANKS) : j = 1 \/ ~(s[RANKS[j]] <= 0)}
  IN IF live = {} THEN Len(RANKS) + 1
     ELSE CHOOSE j \in live : \A k \in live : j <= k

\* the loop skipping a rank only when its count is below zero
NextRankFromZero(s, i) ==
  LET live == {j \in i..Len(RANKS) : ~(s[RANKS[j]] < 0)}
  IN IF live = {} THEN Len(RANKS) + 1
     ELSE CHOOSE j \in live : \A k \in live : j <= k

\* for (const r of RANKS) { if (shoe[r] <= 0) continue; ... }: the index of the
\* first rank, from the i-th on, that the loop does not skip; Len(RANKS) + 1 if
\* it skips them all.
NextRank(s, i) ==
  LET live == {j \in i..Len(RANKS) : ~(s[RANKS[j]] <= 0)}
  IN IF live = {} THEN Len(RANKS) + 1
     ELSE CHOOSE j \in live : \A k \in live : j <= k

\* ------------------------------------------------------------ calls

Top(m) == m.stack[Len(m.stack)]

\* the running call moves on: its frame becomes f
Goto(m, f) == [m EXCEPT !.stack[Len(m.stack)] = f]

\* the running call calls: its frame becomes f, and g runs on top of it
Call(m, f, g) == [m EXCEPT !.stack = Append(SubSeq(@, 1, Len(@) - 1), f) \o <<g>>]

\* the running call returns v
Return(m, v) == [m EXCEPT !.stack = SubSeq(@, 1, Len(@) - 1), !.ret = v]

\* A Map of the code is the sequence of its entries [k, v], one per key, in the
\* order of insertion.
MapHas(map, key) == \E i \in 1..Len(map) : map[i].k = key
MapGet(map, key) == map[CHOOSE i \in 1..Len(map) : map[i].k = key].v
MapSet(map, key, val) ==
  IF MapHas(map, key)
  THEN LET i == CHOOSE n \in 1..Len(map) : map[n].k = key
       IN SubSeq(map, 1, i - 1) \o <<[k |-> key, v |-> val]>> \o SubSeq(map, i + 1, Len(map))
  ELSE Append(map, [k |-> key, v |-> val])

\* ------------------------------------------- dealer distribution, finite shoe

\* A distribution is a function from the keys present ("17".."21", "bust")
\* to their probability; {} is the empty function.
EmptyDist == <<>>

\* String(t.best) for the totals a standing banker can hold
TotalKey(n) ==
  CASE n = 17 -> "17" [] n = 18 -> "18" [] n = 19 -> "19" [] n = 20 -> "20"
    [] n = 21 -> "21"

\* parseInt(k, 10) on a key of the distribution
ParseKey(k) ==
  CASE k = "17" -> 17 [] k = "18" -> 18 [] k = "19" -> 19 [] k = "20" -> 20
    [] k = "21" -> 21

\* the branch added without its weight p
MixUnweighted(out, p, next) ==
  [k \in DOMAIN out \cup DOMAIN next |->
     IF k \in DOMAIN next
     THEN Add(IF k \in DOMAIN out THEN out[k] ELSE Zero, next[k])
     ELSE out[k]] @@ EmptyDist

\* for (const k of Object.keys(next)) out[k] = (out[k] || 0) + p * next[k]
\* (@@ makes the result a table of values, computed here and once)
Mix(out, p, next) ==
  [k \in DOMAIN out \cup DOMAIN next |->
     IF k \in DOMAIN next
     THEN Add(IF k \in DOMAIN out THEN out[k] ELSE Zero, Mul(p, next[k]))
     ELSE out[k]] @@ EmptyDist

\* the banker standing on every 17, soft or hard
standOnAll17(t, rules) == t.best <= 21 /\ t.best >= 17

shouldStand(t, rules) ==
  IF t.best > 21 THEN FALSE
  ELSE IF t.isSoft
       THEN IF t.best > 17 THEN TRUE
            ELSE IF t.best = 17 THEN ~rules.dealerHitsSoft17
            ELSE FALSE
       ELSE t.best >= 17

\* `${t.best}|${t.isSoft ? "S" : "H"}|${shoeKey(shoe)}`: the three parts are
\* separated by "|" and the counts by ",", so the string determines the three parts.
ProbsKey(t, shoe) == [best |-> t.best, isSoft |-> t.isSoft, shoe |-> shoe]

MemoSet(m, key, out) == [m EXCEPT !.memo = MapSet(m.memo, key, out)]

\* a call probsFor(cards, shoe) of the running dealerOutcomeProbs
probsForCall(cards, rules) ==
  [fn |-> "probsFor", pc |-> "enter", cards |-> cards, rules |-> rules,
   key |-> <<>>, out |-> EmptyDist, tot |-> 0, i |-> 1, p |-> Zero]

probsFor(m, f) ==
  LET t == handTotals(f.cards)
      key == ProbsKey(t, m.shoe)
      tot == shoeTotal(m.shoe)
      j == NextRank(m.shoe, f.i)
      r == RANKS[j]
  IN CASE f.pc = "enter" ->
            IF MapHas(m.memo, key) THEN Return(m, MapGet(m.memo, key))
            ELSE IF Len(f.cards) = 2 /\ t.best = 21
                 THEN Return(MemoSet(m, key, "21" :> One), "21" :> One)
            ELSE IF t.best > 21
                 THEN Return(MemoSet(m, key, "bust" :> One), "bust" :> One)
            ELSE IF shouldStand(t, f.rules)
                 THEN Return(MemoSet(m, key, TotalKey(t.best) :> One),
                             TotalKey(t.best) :> One)
            ELSE IF tot = 0 THEN Return(MemoSet(m, key, EmptyDist), EmptyDist)
            ELSE Goto(m, [f EXCEPT !.pc = "loop", !.key = key, !.tot = tot, !.i = 1])
       [] f.pc = "loop" ->
            IF j > Len(RANKS) THEN Return(MemoSet(m, f.key, f.out), f.out)
            ELSE Call(draw(m, r),
                      [f EXCEPT !.pc = "back", !.i = j, !.p = Quot(m, m.shoe[r], f.tot)],
                      probsForCall(Append(f.cards, r), f.rules))
       [] f.pc = "back" ->
            Goto(undraw(m, RANKS[f.i]),
                 [f EXCEPT !.pc = "loop", !.i = f.i + 1, !.out = Mix(f.out, f.p, m.ret)])

dealerOutcomeProbsCall(upcard, rules) ==
  [fn |-> "dealerOutcomeProbs", pc |-> "enter", upcard |-> upcard, rules |-> rules,
   dist |-> EmptyDist, tot |-> 0, i |-> 1, p |-> Zero]

dealerOutcomeProbs(m, f) ==
  LET j == NextRank(m.shoe, f.i)
      r == RANKS[j]
  IN CASE f.pc = "enter" ->
            Goto([m EXCEPT !.memo = <<>>],
                 [f EXCEPT !.pc = "loop", !.tot = shoeTotal(m.shoe), !.i = 1])
       [] f.pc = "loop" ->
            IF j > Len(RANKS) THEN Return(m, f.dist)
            ELSE Call(draw(m, r),
                      [f EXCEPT !.pc = "back", !.i = j, !.p = Quot(m, m.shoe[r], f.tot)],
                      probsForCall(<<f.upcard, r>>, f.rules))
       [] f.pc = "back" ->
            Goto(undraw(m, RANKS[f.i]),
                 [f EXCEPT !.pc = "loop", !.i = f.i + 1, !.dist = Mix(f.dist, f.p, m.ret)])

\* ------------------------------------------------- EV engine, finite shoe

\* the keys of a distribution in the order of Object.keys: the totals
\* ascending, then "bust"
DistKeys == <<"17", "18", "19", "20", "21", "bust">>

\* let ev = 0; for (const [k, p] of Object.entries(dist)) ...: ev after the
\* first i keys
RECURSIVE standSum(_, _, _)
standSum(pt, dist, i) ==
  IF i = 0 THEN Zero
  ELSE LET k == DistKeys[i]
           ev == standSum(pt, dist, i - 1)
       IN IF k \notin DOMAIN dist THEN ev
          ELSE IF k = "bust" THEN Add(ev, dist[k])
          ELSE IF pt > ParseKey(k) THEN Add(ev, dist[k])
          ELSE IF pt < ParseKey(k) THEN Sub(ev, dist[k])
          ELSE ev

evStandCall(player, upcard, rules) ==
  [fn |-> "evStand", pc |-> "enter", player |-> player, upcard |-> upcard,
   rules |-> rules]

evStand(m, f) ==
  LET pt == handTotals(f.player).best
  IN CASE f.pc = "enter" ->
            IF pt > 21 THEN Return(m, MinusOne)
            ELSE Call(m, [f EXCEPT !.pc = "back"],
                      dealerOutcomeProbsCall(f.upcard, f.rules))
       [] f.pc = "back" -> Return(m, standSum(pt, m.ret, Len(DistKeys)))

evInitialBlackjackCall(upcard, rules) ==
  [fn |-> "evInitialBlackjack", pc |-> "enter", upcard |-> upcard, rules |-> rules]

evInitialBlackjack(m, f) ==
  LET dist == m.ret
      pDealerBJ == IF "21" \in DOMAIN dist THEN dist["21"] ELSE Zero
      payout == f.rules.blackjackPays
  IN CASE f.pc = "enter" ->
            Call(m, [f EXCEPT !.pc = "back"],
                 dealerOutcomeProbsCall(f.upcard, f.rules))
       [] f.pc = "back" -> Return(m, Mul(Sub(One, pDealerBJ), payout))

\* The sorted "rank x count" entries of the normalized hand: the bag of its
\* normalized ranks.
handKey(hand) ==
  LET norm == {normalizeRank(hand[i]) : i \in 1..Len(hand)}
  IN [r \in norm |->
        Cardinality({i \in 1..Len(hand) : normalizeRank(hand[i]) = r})] @@ <<>>

\* the key without the shoe
CacheKeyNoShoe(hand, ctx, shoe) ==
  LET t == handTotals(hand)
  IN [hand |-> handKey(hand), pt |-> t.best, soft |-> t.isSoft,
      up |-> ctx.upcard, cd |-> ctx.canDouble, cs |-> ctx.canSplit,
      sd |-> ctx.splitDepth, sa |-> ctx.isSplitAces,
      H17 |-> ctx.rules.dealerHitsSoft17, SR |-> ctx.rules.lateSurrender,
      shoe |-> <<>>]

\* the ten parts of the cache key, joined by "|" in the code
CacheKey(hand, ctx, shoe) ==
  LET t == handTotals(hand)
  IN [hand |-> handKey(hand), pt |-> t.best, soft |-> t.isSoft,
      up |-> ctx.upcard, cd |-> ctx.canDouble, cs |-> ctx.canSplit,
      sd |-> ctx.splitDepth, sa |-> ctx.isSplitAces,
      H17 |-> ctx.rules.dealerHitsSoft17, SR |-> ctx.rules.lateSurrender,
      shoe |-> shoe]

CacheSet(m, key, v) ==
  IF m.uncached THEN m ELSE [m EXCEPT !.cache = MapSet(m.cache, key, v)]

Max2(x, y) == IF Lt(x, y) THEN y ELSE x
Max5(a, b, c, d, e) == Max2(Max2(Max2(Max2(a, b), c), d), e)

Two == <<2, 1>>

bestActionEVCall(hand, ctx) ==
  [fn |-> "bestActionEV", pc |-> "enter", hand |-> hand, ctx |-> ctx,
   key |-> <<>>, standEV |-> Zero, hitEV |-> Zero, v2 |-> Zero,
   doubleEV |-> NEGATIVE_INFINITY, surrenderEV |-> NEGATIVE_INFINITY,
   splitEV |-> NEGATIVE_INFINITY, left |-> Zero, right |-> Zero,
   leftEV |-> Zero, tot |-> 0, i |-> 1, p |-> Zero]

\* the card after a hit: a forced stand for a split ace under the
\* one-card-only rule, the best achievable EV otherwise
hitChild(next, ctx) ==
  IF ctx.isSplitAces /\ ctx.rules.splitAcesOneCardOnly
  THEN evStandCall(next, ctx.upcard, ctx.rules)
  ELSE bestActionEVCall(next, ctx)

splittingAces(hand) == hand[1] = "A" /\ hand[2] = "A"

\* resplitting allowed at every depth
canResplitAnyDepth(hand, ctx) ==
  IF splittingAces(hand) THEN ctx.rules.resplitAces ELSE TRUE

\* const canResplit = ctx.splitDepth < ctx.rules.resplitPairs
\*                      && (splittingAces ? ctx.rules.resplitAces : true)
canResplit(hand, ctx) ==
  ctx.splitDepth < ctx.rules.resplitPairs
    /\ (IF splittingAces(hand) THEN ctx.rules.resplitAces ELSE TRUE)

\* the sub-hand context that keeps the parent's canDouble
childCtxKeepDouble(hand, ctx) ==
  [ctx EXCEPT !.canSplit = canResplit(hand, ctx),
              !.splitDepth = ctx.splitDepth + 1,
              !.isSplitAces = splittingAces(hand)]

\* { ...ctx, canDouble: ctx.doubleAfterSplit, canSplit: canResplit,
\*   splitDepth: ctx.splitDepth + 1, isSplitAces: splittingAces }
childCtx(hand, ctx) ==
  [ctx EXCEPT !.canDouble = ctx.doubleAfterSplit,
              !.canSplit = canResplit(hand, ctx),
              !.splitDepth = ctx.splitDepth + 1,
              !.isSplitAces = splittingAces(hand)]

\* the sub-hand of split aces played on like any other
splitChildPlayed(card, r, hand, ctx) ==
  bestActionEVCall(<<card, r>>, childCtx(hand, ctx))

\* the sub-hand [card, r] of a split
splitChild(card, r, hand, ctx) ==
  IF splittingAces(hand) /\ ctx.rules.splitAcesOneCardOnly
  THEN evStandCall(<<card, r>>, ctx.upcard, ctx.rules)
  ELSE bestActionEVCall(<<card, r>>, childCtx(hand, ctx))

bestActionEV(m, f) ==
  LET hand == f.hand
      ctx == f.ctx
      key == CacheKey(hand, ctx, m.shoe)
      initial == Len(hand) = 2 /\ ctx.splitDepth = 0
      j == NextRank(m.shoe, f.i)
      r == RANKS[j]
      loop == [f EXCEPT !.tot = shoeTotal(m.shoe), !.i = 1]
      drawn == [f EXCEPT !.i = j, !.p = Quot(m, m.shoe[r], f.tot)]
      best == Max5(f.standEV, f.hitEV, f.doubleEV, f.surrenderEV, f.splitEV)
  IN CASE f.pc = "enter" ->
            IF MapHas(m.cache, key) THEN Return(m, MapGet(m.cache, key))
            ELSE IF isBust(hand) THEN Return(CacheSet(m, key, MinusOne), MinusOne)
            ELSE IF initial /\ isBlackjack(hand)
                 THEN Call(m, [f EXCEPT !.pc = "natural", !.key = key],
                           evInitialBlackjackCall(ctx.upcard, ctx.rules))
            ELSE Call(m, [f EXCEPT !.pc = "stand", !.key = key],
                      evStandCall(hand, ctx.upcard, ctx.rules))
       [] f.pc = "natural" -> Return(CacheSet(m, f.key, m.ret), m.ret)
       [] f.pc = "stand" ->
            Goto(m, [loop EXCEPT !.pc = "hit", !.standEV = m.ret, !.hitEV = Zero])
       [] f.pc = "hit" ->
            IF j > Len(RANKS) THEN Goto(m, [f EXCEPT !.pc = "double"])
            ELSE Call(draw(m, r), [drawn EXCEPT !.pc = "hitBack"],
                      hitChild(Append(hand, r), ctx))
       [] f.pc = "hitBack" ->
            Goto(undraw(m, RANKS[f.i]),
                 [f EXCEPT !.pc = "hit", !.i = f.i + 1,
                           !.hitEV = Add(f.hitEV, Mul(f.p, m.ret))])
       [] f.pc = "double" ->
            IF ctx.canDouble /\ Len(hand) = 2 /\ ctx.rules.doubleAllowed
            THEN Goto(m, [loop EXCEPT !.pc = "doubleNext", !.v2 = Zero])
            ELSE Goto(m, [f EXCEPT !.pc = "surrender"])
       [] f.pc = "doubleNext" ->
            IF j > Len(RANKS)
            THEN Goto(m, [f EXCEPT !.pc = "surrender", !.doubleEV = Mul(Two, f.v2)])
            ELSE Call(draw(m, r), [drawn EXCEPT !.pc = "doubleBack"],
                      evStandCall(Append(hand, r), ctx.upcard, ctx.rules))
       [] f.pc = "doubleBack" ->
            Goto(undraw(m, RANKS[f.i]),
                 [f EXCEPT !.pc = "doubleNext", !.i = f.i + 1,
                           !.v2 = Add(f.v2, Mul(f.p, m.ret))])
       [] f.pc = "surrender" ->
            LET g == [f EXCEPT !.surrenderEV =
                        IF ctx.rules.lateSurrender /\ Len(hand) = 2
                             /\ ctx.splitDepth = 0
                        THEN MinusHalf ELSE NEGATIVE_INFINITY]
            IN IF ctx.canSplit /\ Len(hand) = 2
                    /\ normalizeRank(hand[1]) = normalizeRank(hand[2])
               THEN Goto(m, [g EXCEPT !.pc = "split", !.left = Zero, !.right = Zero,
                                      !.tot = shoeTotal(m.shoe), !.i = 1])
               ELSE Goto(m, [g EXCEPT !.pc = "finish"])
       [] f.pc = "split" ->
            IF j > Len(RANKS)
            THEN Goto(m, [f EXCEPT !.pc = "finish", !.splitEV = Add(f.left, f.right)])
            ELSE Call(draw(m, r), [drawn EXCEPT !.pc = "splitLeft"],
                      splitChild(hand[1], r, hand, ctx))
       [] f.pc = "splitLeft" ->
            Call(m, [f EXCEPT !.pc = "splitRight", !.leftEV = m.ret],
                 splitChild(hand[2], RANKS[f.i], hand, ctx))
       [] f.pc = "splitRight" ->
            Goto(undraw(m, RANKS[f.i]),
                 [f EXCEPT !.pc = "split", !.i = f.i + 1,
                           !.left = Add(f.left, Mul(f.p, f.leftEV)),
                           !.right = Add(f.right, Mul(f.p, m.ret))])
       [] f.pc = "finish" -> Return(CacheSet(m, f.key, best), best)

\* the cache of the calls before, kept
keptCache(m) == m

\* const cache = new Map()
newCache(m) == [m EXCEPT !.cache = <<>>]

\* The table an evaluation returns is the sequence of its entries [k, v] in
\* the order of insertion (the order Object.entries walks them in).
actionEVsFiniteCall(hand, ctx) ==
  [fn |-> "actionEVsFinite", pc |-> "enter", hand |-> hand, ctx |-> ctx,
   res |-> <<>>, hitEV |-> Zero, v2 |-> Zero, left |-> Zero, right |-> Zero,
   leftEV |-> Zero, tot |-> 0, i |-> 1, p |-> Zero]

\* the conditions under which the table gets its Double, Surrender and Split
doubleOpen(hand, ctx) ==
  ctx.canDouble /\ Len(hand) = 2 /\ ctx.rules.doubleAllowed

\* the doubled bet forgotten
doubleValueSingle(v2) == v2

doubleValue(v2) == Mul(Two, v2)

\* surrender offered at any split depth
surrenderOpenAnyDepth(hand, ctx) ==
  ctx.rules.lateSurrender /\ Len(hand) = 2

surrenderOpen(hand, ctx) ==
  ctx.rules.lateSurrender /\ Len(hand) = 2 /\ ctx.splitDepth = 0

splitOpen(hand, ctx) ==
  Len(hand) = 2 /\ normalizeRank(hand[1]) = normalizeRank(hand[2])

actionEVsFinite(m, f) ==
  LET hand == f.hand
      ctx == f.ctx
      j == NextRank(m.shoe, f.i)
      r == RANKS[j]
      loop == [f EXCEPT !.tot = shoeTotal(m.shoe), !.i = 1]
      drawn == [f EXCEPT !.i = j, !.p = Quot(m, m.shoe[r], f.tot)]
  IN CASE f.pc = "enter" ->
            Call(newCache(m), [f EXCEPT !.pc = "stand", !.res = <<>>],
                 evStandCall(hand, ctx.upcard, ctx.rules))
       [] f.pc = "stand" ->
            Goto(m, [loop EXCEPT !.pc = "hit", !.hitEV = Zero,
                                 !.res = MapSet(f.res, "Stand", m.ret)])
       [] f.pc = "hit" ->
            IF j > Len(RANKS)
            THEN Goto(m, [f EXCEPT !.pc = "double",
                                   !.res = MapSet(f.res, "Hit", f.hitEV)])
            ELSE Call(draw(m, r), [drawn EXCEPT !.pc = "hitBack"],
                      hitChild(Append(hand, r), ctx))
       [] f.pc = "hitBack" ->
            Goto(undraw(m, RANKS[f.i]),
                 [f EXCEPT !.pc = "hit", !.i = f.i + 1,
                           !.hitEV = Add(f.hitEV, Mul(f.p, m.ret))])
       [] f.pc = "double" ->
            IF doubleOpen(hand, ctx)
            THEN Goto(m, [loop EXCEPT !.pc = "doubleNext", !.v2 = Zero])
            ELSE Goto(m, [f EXCEPT !.pc = "surrender"])
       [] f.pc = "doubleNext" ->
            IF j > Len(RANKS)
            THEN Goto(m, [f EXCEPT !.pc = "surrender",
                                   !.res = MapSet(f.res, "Double", doubleValue(f.v2))])
            ELSE Call(draw(m, r), [drawn EXCEPT !.pc = "doubleBack"],
                      evStandCall(Append(hand, r), ctx.upcard, ctx.rules))
       [] f.pc = "doubleBack" ->
            Goto(undraw(m, RANKS[f.i]),
                 [f EXCEPT !.pc = "doubleNext", !.i = f.i + 1,
                           !.v2 = Add(f.v2, Mul(f.p, m.ret))])
       [] f.pc = "surrender" ->
            LET g == [f EXCEPT !.res = IF surrenderOpen(hand, ctx)
                                       THEN MapSet(f.res, "Surrender", MinusHalf)
                                       ELSE f.res]
            IN IF splitOpen(hand, ctx)
               THEN Goto(m, [g EXCEPT !.pc = "split", !.left = Zero, !.right = Zero,
                                      !.tot = shoeTotal(m.shoe), !.i = 1])
               ELSE Goto(m, [g EXCEPT !.pc = "blackjack"])
       [] f.pc = "split" ->
            IF j > Len(RANKS)
            THEN Goto(m, [f EXCEPT !.pc = "blackjack",
                                   !.res = MapSet(f.res, "Split", Add(f.left, f.right))])
            ELSE Call(draw(m, r), [drawn EXCEPT !.pc = "splitLeft"],
                      splitChild(hand[1], r, hand, ctx))
       [] f.pc = "splitLeft" ->
            Call(m, [f EXCEPT !.pc = "splitRight", !.leftEV = m.ret],
                 splitChild(hand[2], RANKS[f.i], hand, ctx))
       [] f.pc = "splitRight" ->
            Goto(undraw(m, RANKS[f.i]),
                 [f EXCEPT !.pc = "split", !.i = f.i + 1,
                           !.left = Add(f.left, Mul(f.p, f.leftEV)),
                           !.right = Add(f.right, Mul(f.p, m.ret))])
       [] f.pc = "blackjack" ->
            IF Len(hand) = 2 /\ isBlackjack(hand)
            THEN Call(m, [f EXCEPT !.pc = "natural"],
                      evInitialBlackjackCall(ctx.upcard, ctx.rules))
            ELSE Return(m, f.res)
       [] f.pc = "natural" -> Return(m, MapSet(f.res, "Blackjack", m.ret))

\* the loop replacing the best on >= instead of >
RECURSIVE bestMoveLoopLast(_, _, _, _)
bestMoveLoopLast(evs, i, bestM, bestV) ==
  IF i > Len(evs) THEN [move |-> bestM, ev |-> bestV]
  ELSE IF Le(bestV, evs[i].v)
       THEN bestMoveLoopLast(evs, i + 1, evs[i].k, evs[i].v)
       ELSE bestMoveLoopLast(evs, i + 1, bestM, bestV)

\* let bestM = "Stand"; let bestV = -Infinity; for (const [k, v] of entries) ...
RECURSIVE bestMoveLoop(_, _, _, _)
bestMoveLoop(evs, i, bestM, bestV) ==
  IF i > Len(evs) THEN [move |-> bestM, ev |-> bestV]
  ELSE IF Lt(bestV, evs[i].v)
       THEN bestMoveLoop(evs, i + 1, evs[i].k, evs[i].v)
       ELSE bestMoveLoop(evs, i + 1, bestM, bestV)

bestMoveFrom(evs) == bestMoveLoop(evs, 1, "Stand", NEGATIVE_INFINITY)

\* ------------------------------------------------------------ running a call

\* the calls of the two recursive functions active below the first call
Nested(stack) ==
  Cardinality({i \in 2..Len(stack) : stack[i].fn \in {"bestActionEV", "probsFor"}})

\* the frame of a recursive function whose hand is over 21
DrawsOver21(f) ==
  \/ f.fn = "bestActionEV" /\ handTotals(f.hand).best > 21
  \/ f.fn = "probsFor" /\ handTotals(f.cards).best > 21

\* one step of the call on top of the stack
Run1(n, f) ==
  CASE f.fn = "probsFor" -> probsFor(n, f)
    [] f.fn = "dealerOutcomeProbs" -> dealerOutcomeProbs(n, f)
    [] f.fn = "evStand" -> evStand(n, f)
    [] f.fn = "evInitialBlackjack" -> evInitialBlackjack(n, f)
    [] f.fn = "bestActionEV" -> bestActionEV(n, f)
    [] f.fn = "actionEVsFinite" -> actionEVsFinite(n, f)

\* the split loops of the stack that wait for the EV of a sub-hand
SplitsOn(stack) ==
  Cardinality({i \in 1..Len(stack) : stack[i].pc \in {"splitLeft", "splitRight"}})

AceSplitsOn(stack) ==
  Cardinality({i \in 1..Len(stack) :
                 stack[i].pc \in {"splitLeft", "splitRight"}
                   /\ splittingAces(stack[i].hand)})

\* the frame f, in its split loop, drew a card for its two sub-hands
SplitDrew(m, f, o) == f.pc = "split" /\ o.draws > m.draws

\* what the step from m to o, made by the frame f, adds to the record of the
\* run; n is the number of nested calls it left and drew says that it drew a
\* card in a split loop
NotedWith(m, f, o, n, drew) ==
  [o EXCEPT !.deep = IF n > m.deep THEN n ELSE m.deep,
            !.ahead = m.ahead \/ n > o.held,
            !.xb = m.xb \/ (o.draws > m.draws /\ DrawsOver21(f)),
            !.sd = IF drew /\ childCtx(f.hand, f.ctx).splitDepth > m.sd
                   THEN childCtx(f.hand, f.ctx).splitDepth ELSE m.sd,
            !.splits = IF drew /\ SplitsOn(o.stack) > m.splits
                       THEN SplitsOn(o.stack) ELSE m.splits,
            !.aceSplits = IF drew /\ AceSplitsOn(o.stack) > m.aceSplits
                          THEN AceSplitsOn(o.stack) ELSE m.aceSplits]

Noted(m, f, o) == NotedWith(m, f, o, Nested(o.stack), SplitDrew(m, f, o))

StepOf(m, f) == Noted(m, f, Run1([m EXCEPT !.steps = m.steps + 1], f))

Step(m) == StepOf(m, Top(m))

\* Steps of m until its stack is empty, at most 8^k of them. The eight halves
\* are taken in order, each from the machine the one before it left.
Depth == 6

RECURSIVE Steps(_, _)
Steps(k, m) ==
  IF Len(m.stack) = 0 THEN m
  ELSE IF k = 0 THEN Step(m)
  ELSE LET a == Steps(k - 1, m)
           b == Steps(k - 1, a)
           c == Steps(k - 1, b)
           d == Steps(k - 1, c)
           e == Steps(k - 1, d)
           g == Steps(k - 1, e)
           h == Steps(k - 1, g)
           l == Steps(k - 1, h)
       IN <<a, b, c, d, e, g, h, l>>[8]

\* the call g made on a shoe s, run to its return
Run(s, g) == Steps(Depth, [Start(s) EXCEPT !.stack = <<g>>])

\* the same call with nothing ever read from a cache
RunUncached(s, g) ==
  Steps(Depth, [Start(s) EXCEPT !.stack = <<g>>, !.uncached = TRUE])

\* the call g made on a shoe s in binary64, run to its return
RunDouble(s, g) ==
  Steps(Depth, [Start(s) EXCEPT !.stack = <<g>>, !.ieee = TRUE])

\* ------------------------------------------------------------ the program

VARIABLES
  hand,   \* the hand under evaluation
  ctx,    \* its PlayerContext (rules and upcard included)
  shoe,   \* the Shoe object the calls work on
  call,   \* the function called last, "none" before any call
  pre,    \* the shoe's counts when that call began
  run,    \* the machine that call left: its return value and what it did
  app     \* the App component: its state and what its last render computed

vars == <<hand, ctx, shoe, call, pre, run, app>>

\* App's state as the component is created, nothing rendered
NoApp ==
  [hands |-> <<<<"A", "7">>>>, dealerUp |-> "6", rules |-> DEFAULT_RULES,
   perHand |-> <<>>, totalEV |-> Zero]

\* One deck, rule sets reachable with the toggles of the rules panel.
Rules1 == [DEFAULT_RULES EXCEPT !.decks = 1]

RuleSets ==
  { Rules1,
    [Rules1 EXCEPT !.dealerHitsSoft17 = FALSE, !.lateSurrender = FALSE,
                   !.doubleAllowed = FALSE, !.doubleAfterSplit = FALSE,
                   !.resplitPairs = 0],
    [Rules1 EXCEPT !.splitAcesOneCardOnly = FALSE, !.resplitPairs = 1] }

Hands ==
  { <<"A", "10">>, <<"8", "8">>, <<"A", "A">>, <<"10", "K">>, <<"10", "6">>,
    <<"10", "10", "5">>, <<"A", "2", "8">> }

Upcards == {"6", "A", "10"}

\* the context App gives a hand at the root of an evaluation
AppCtx(h, rules, up) ==
  [rules |-> rules, upcard |-> up, canDouble |-> Len(h) = 2,
   canSplit |-> canSplit(h), splitDepth |-> 0, isSplitAces |-> FALSE,
   doubleAfterSplit |-> rules.doubleAfterSplit]

\* and the other contexts a PlayerContext can hold: flags off at the root, and
\* the contexts of the sub-hands of a split
Contexts(h, rules, up) ==
  LET c == AppCtx(h, rules, up)
  IN { c,
       [c EXCEPT !.canDouble = FALSE, !.canSplit = FALSE],
       [c EXCEPT !.canDouble = rules.doubleAfterSplit, !.splitDepth = 1],
       [c EXCEPT !.canDouble = rules.doubleAfterSplit, !.canSplit = FALSE,
                 !.splitDepth = 1, !.isSplitAces = TRUE] }

\* The cards the other hands of the table leave in the deck, by rank: App
\* holds any number of hands, and initShoeMulti removes all their cards.
Left(f) == [r \in RankSet |-> IF r \in DOMAIN f THEN f[r] ELSE 0]

Lefts ==
  { Left(<<>>),
    Left("2" :> 1),
    Left(("5" :> 1) @@ ("10" :> 1)),
    Left("10" :> 4),
    Left(("A" :> 1) @@ ("5" :> 1) @@ ("10" :> 1) @@ ("K" :> 1)),
    Left(("3" :> 1) @@ ("4" :> 1) @@ ("7" :> 1) @@ ("9" :> 1)),
    Left(("2" :> 1) @@ ("3" :> 2) @@ ("9" :> 2)) }

\* the other hands: for every rank one hand with the copies that are not left
Copies(r, n) == [i \in 1..n |-> r]
OtherHands(left) ==
  [i \in 1..Len(RANKS) |->
     Copies(RANKS[i], makeFullShoe(Rules1.decks)[RANKS[i]] - left[RANKS[i]])]

MaxShoe == 4

Init ==
  /\ hand \in Hands
  /\ \E rules \in RuleSets, up \in Upcards : ctx \in Contexts(hand, rules, up)
  /\ \E left \in Lefts :
       shoe = initShoeMulti(ctx.rules.decks, <<hand>> \o OtherHands(left), ctx.upcard)
  /\ shoeTotal(shoe) <= MaxShoe
  /\ call = "none"
  /\ pre = shoe
  /\ run = Start(shoe)
  /\ app = NoApp

\* a call of g on the shoe, from its entry to its return
Called(name, g) ==
  /\ call = "none"
  /\ call' = name
  /\ pre' = shoe
  /\ run' = Run(shoe, g)
  /\ shoe' = run'.shoe
  /\ UNCHANGED <<hand, ctx, app>>

ActionEVsFinite == Called("actionEVsFinite", actionEVsFiniteCall(hand, ctx))
BestActionEV == Called("bestActionEV", bestActionEVCall(hand, ctx))
EvStand == Called("evStand", evStandCall(hand, ctx.upcard, ctx.rules))
EvInitialBlackjack ==
  Called("evInitialBlackjack", evInitialBlackjackCall(ctx.upcard, ctx.rules))
DealerOutcomeProbs ==
  Called("dealerOutcomeProbs", dealerOutcomeProbsCall(ctx.upcard, ctx.rules))

Next ==
  \/ ActionEVsFinite
  \/ BestActionEV
  \/ EvStand
  \/ EvInitialBlackjack
  \/ DealerOutcomeProbs

Spec == Init /\ [][Next]_vars

\* every call returned within the steps Run allows
Returned == Len(run.stack) = 0

\* ------------------------------------------------- the banker on its own

\* every upcard, both soft-17 rules, and the decks the other hands can leave
\* of these ranks
DealerRanks == {"A", "2", "5", "6", "10", "K"}
DealerLefts == {Left(f) : f \in [DealerRanks -> 0..1]}

InitDealer ==
  /\ hand = <<"A", "7">>
  /\ \E h17 \in BOOLEAN, up \in RankSet :
       ctx = AppCtx(hand, [Rules1 EXCEPT !.dealerHitsSoft17 = h17], up)
  /\ \E left \in DealerLefts :
       shoe = initShoeMulti(ctx.rules.decks, <<hand>> \o OtherHands(left), ctx.upcard)
  /\ shoeTotal(shoe) <= MaxShoe
  /\ call = "none"
  /\ pre = shoe
  /\ run = Start(shoe)
  /\ app = NoApp

NextDealer == DealerOutcomeProbs

SpecDealer == InitDealer /\ [][NextDealer]_vars

\* ------------------------------------------------------ the App component

\* the cards a CardPicker holds at most
MaxCards == 10

\* the other seats of the table: the cards that are not left, rank by rank,
\* MaxCards to a hand
RECURSIVE CardsFrom(_, _)
CardsFrom(left, i) ==
  IF i > Len(RANKS) THEN <<>>
  ELSE Copies(RANKS[i], makeFullShoe(Rules1.decks)[RANKS[i]] - left[RANKS[i]])
         \o CardsFrom(left, i + 1)

Seats(left) ==
  LET c == CardsFrom(left, 1)
      n == (Len(c) + MaxCards - 1) \div MaxCards
  IN [j \in 1..n |->
        SubSeq(c, MaxCards * (j - 1) + 1,
               IF MaxCards * j < Len(c) THEN MaxCards * j ELSE Len(c))] \o <<>>

\* a call of actionEVsFinite on the shoe object s, the Maps of the calls before
\* still where those calls left them
Enter(m, s, g) ==
  [Start(s) EXCEPT !.memo = m.memo, !.cache = m.cache, !.stack = <<g>>]

\* hands.map of perHand, from hand i on: every hand is given the same baseShoe
\* object, as the evaluations before it left it. perHandWith is the entry of
\* hand i, whose evaluation left the machine n, and the entries after it.
RECURSIVE perHandFrom(_, _, _, _, _), perHandWith(_, _, _, _, _, _)
perHandFrom(hs, rules, up, i, m) ==
  IF i > Len(hs) THEN <<>>
  ELSE perHandWith(hs, rules, up, i, m.shoe,
                   Steps(Depth, Enter(m, m.shoe,
                                      actionEVsFiniteCall(hs[i], AppCtx(hs[i], rules, up)))))

perHandWith(hs, rules, up, i, given, n) ==
  <<[evs |-> n.ret, best |-> bestMoveFrom(n.ret), totals |-> handTotals(hs[i]),
     ctx |-> AppCtx(hs[i], rules, up), given |-> given, left |-> n]>>
    \o perHandFrom(hs, rules, up, i + 1, n)

\* perHand.reduce of totalEV
RECURSIVE totalEVFrom(_, _, _)
totalEVFrom(ph, i, s) ==
  IF i > Len(ph) THEN s ELSE totalEVFrom(ph, i + 1, Add(s, ph[i].best.ev))

\* what perHand keeps of each hand
RECURSIVE perHandOf(_, _)
perHandOf(ph, i) ==
  IF i > Len(ph) THEN <<>>
  ELSE <<[evs |-> ph[i].evs, best |-> ph[i].best, totals |-> ph[i].totals,
          ctx |-> ph[i].ctx, given |-> ph[i].given]>> \o perHandOf(ph, i + 1)

\* App's values once the hands have been evaluated
RenderWith(hs, up, rules, ph) ==
  [app |-> [hands |-> hs, dealerUp |-> up, rules |-> rules,
            perHand |-> perHandOf(ph, 1),
            totalEV |-> totalEVFrom(ph, 1, Zero)],
   run |-> ph[Len(ph)].left]

\* one render of App with the baseShoe object base
Render(hs, up, rules, base, m) ==
  RenderWith(hs, up, rules, perHandFrom(hs, rules, up, 1, [m EXCEPT !.shoe = base]))

\* the state a render leaves
Rendered(r, base) ==
  /\ app' = r.app
  /\ run' = r.run
  /\ shoe' = r.run.shoe
  /\ pre' = base
  /\ call' = "render"
  /\ hand' = r.app.hands[Len(r.app.hands)]
  /\ ctx' = r.app.perHand[Len(r.app.hands)].ctx

\* a change of hands or upcard: useMemo builds a new baseShoe
Rebuilt(hs, up) ==
  LET base == initShoeMulti(app.rules.decks, hs, up)
  IN /\ call = "render"
     /\ shoeTotal(base) <= MaxShoe
     /\ Rendered(Render(hs, up, app.rules, base, run), base)

MaxSeats == 7

AppHands == { <<"A", "7">>, <<"8", "8">>, <<"10", "6">> }
AppUpcards == {"6", "10"}
AppRules == { Rules1, [Rules1 EXCEPT !.doubleAllowed = FALSE] }
AppLefts ==
  { Left(("A" :> 1) @@ ("7" :> 1) @@ ("8" :> 2) @@ ("6" :> 1) @@ ("10" :> 1)),
    Left(("A" :> 2) @@ ("7" :> 2) @@ ("8" :> 1) @@ ("3" :> 1) @@ ("10" :> 1)),
    Left(("A" :> 1) @@ ("7" :> 1) @@ ("6" :> 1) @@ ("10" :> 2) @@ ("K" :> 1)),
    Left(("8" :> 2) @@ ("3" :> 1) @@ ("6" :> 1) @@ ("10" :> 2)) }

\* App as it is created on a table: its state set, nothing rendered yet
InitApp ==
  \E left \in AppLefts, h \in AppHands, up \in AppUpcards, rules \in AppRules :
    LET hs == Seats(left) \o <<h>>
        base == initShoeMulti(rules.decks, hs, up)
    IN /\ shoeTotal(base) <= MaxShoe
       /\ app = [hands |-> hs, dealerUp |-> up, rules |-> rules,
                 perHand |-> <<>>, totalEV |-> Zero]
       /\ run = Start(base)
       /\ shoe = base
       /\ pre = base
       /\ call = "none"
       /\ hand = h
       /\ ctx = AppCtx(h, rules, up)

\* the first render
Mount ==
  /\ call = "none"
  /\ Rendered(Render(app.hands, app.dealerUp, app.rules, shoe, run), shoe)

AddHand ==
  /\ Len(app.hands) < MaxSeats
  /\ Rebuilt(app.hands \o <<<<"A", "7">>>>, app.dealerUp)

RemoveHandAt ==
  \E idx \in 1..Len(app.hands) :
    /\ Len(app.hands) > 1
    /\ Rebuilt([i \in 1..(Len(app.hands) - 1) |->
                  IF i < idx THEN app.hands[i] ELSE app.hands[i + 1]] \o <<>>,
               app.dealerUp)

SetHandAt ==
  \E idx \in 1..Len(app.hands), newHand \in AppHands :
    Rebuilt([app.hands EXCEPT ![idx] = newHand], app.dealerUp)

SetDealerUp ==
  \E r \in AppUpcards :
    /\ r # app.dealerUp
    /\ Rebuilt(app.hands, r)

\* a change of rules: the same baseShoe object while decks is the same
SetRules ==
  \E rules \in AppRules :
    LET base == IF rules.decks = app.rules.decks THEN shoe
                ELSE initShoeMulti(rules.decks, app.hands, app.dealerUp)
    IN /\ call = "render"
       /\ shoeTotal(base) <= MaxShoe
       /\ Rendered(Render(app.hands, app.dealerUp, rules, base, run), base)

NextApp ==
  \/ Mount
  \/ AddHand
  \/ RemoveHandAt
  \/ SetHandAt
  \/ SetDealerUp
  \/ SetRules

SpecApp == InitApp /\ [][NextApp]_vars

\* ------------------------------------------------------ handTotals alone

\* every hand of up to MaxLen cards of these ranks, in every order
MaxLen == 5
HandRanks == {"A", "3", "7", "10", "Q"}

InitHands ==
  /\ hand \in UNION {[1..n -> HandRanks] : n \in 0..MaxLen}
  /\ ctx = AppCtx(hand, Rules1, "6")
  /\ shoe = makeFullShoe(Rules1.decks)
  /\ call = "none"
  /\ pre = shoe
  /\ run = Start(shoe)
  /\ app = NoApp

HandTotals ==
  /\ call = "none"
  /\ call' = "handTotals"
  /\ run' = [run EXCEPT !.ret = handTotals(hand)]
  /\ UNCHANGED <<hand, ctx, shoe, pre, app>>

NextHands == HandTotals

SpecHands == InitHands /\ [][NextHands]_vars

\* ------------------------------------------------- splits and resplits

\* Pairs evaluated by actionEVsFinite at split depth 0, under every setting of
\* the three rules of splitting, on decks that hold more cards of the pair.
MaxResplit == 2

SplitHands == { <<"8", "8">>, <<"A", "A">>, <<"10", "K">> }

SplitRules ==
  { [Rules1 EXCEPT !.resplitPairs = n, !.resplitAces = a,
                   !.splitAcesOneCardOnly = o] :
      n \in 0..MaxResplit, a \in BOOLEAN, o \in BOOLEAN }

SplitLefts ==
  { Left("8" :> 4),
    Left(("8" :> 4) @@ ("3" :> 1) @@ ("10" :> 1)),
    Left("A" :> 4),
    Left(("A" :> 4) @@ ("5" :> 1) @@ ("10" :> 1)),
    Left("10" :> 4),
    Left(("10" :> 4) @@ ("J" :> 1)) }

InitSplit ==
  /\ hand \in SplitHands
  /\ \E rules \in SplitRules :
       LET c == AppCtx(hand, rules, "6")
       IN ctx \in {c, [c EXCEPT !.canSplit = FALSE]}
  /\ \E left \in SplitLefts :
       shoe = initShoeMulti(ctx.rules.decks, <<hand>> \o OtherHands(left), ctx.upcard)
  /\ shoeTotal(shoe) <= MaxShoe
  /\ call = "none"
  /\ pre = shoe
  /\ run = Start(shoe)
  /\ app = NoApp

NextSplit == ActionEVsFinite

SpecSplit == InitSplit /\ [][NextSplit]_vars

\* ------------------------------------------------- the engine in binary64

\* bestActionEV on one deck from which the other hands left ten-valued cards
\* only, at most MaxLeft of them: every evaluation is a few draws deep, and the
\* fractions shoe[r] / tot are tenths, sevenths, ninths, ...
MaxLeft == 10

TenLefts == {Left(f @@ ("K" :> 1)) : f \in [{"10", "J", "Q"} -> 1..4]}

DoubleHands ==
  { <<"9", "4", "3">>, <<"9", "7">>, <<"10", "8">>, <<"A", "K">>, <<"10", "6", "K">> }

DoubleRules ==
  { Rules1, [Rules1 EXCEPT !.lateSurrender = FALSE, !.doubleAllowed = FALSE] }

InitDouble ==
  /\ hand \in DoubleHands
  /\ \E rules \in DoubleRules : ctx = AppCtx(hand, rules, "7")
  /\ \E left \in TenLefts :
       shoe = initShoeMulti(ctx.rules.decks, <<hand>> \o OtherHands(left), ctx.upcard)
  /\ shoeTotal(shoe) <= MaxLeft
  /\ call = "none"
  /\ pre = shoe
  /\ run = Start(shoe)
  /\ app = NoApp

\* bestActionEV(hand, ctx, shoe, new Map()), from its entry to its return
BestActionEVDouble ==
  /\ call = "none"
  /\ call' = "bestActionEV"
  /\ pre' = shoe
  /\ run' = RunDouble(shoe, bestActionEVCall(hand, ctx))
  /\ shoe' = run'.shoe
  /\ UNCHANGED <<hand, ctx, app>>

NextDouble == BestActionEVDouble

SpecDouble == InitDouble /\ [][NextDouble]_vars

\* ------------------------------------------------------------ properties

\* the table of the evaluation that returned, and its entries
Table == run.ret
HasKey(k) == MapHas(Table, k)
Value(k) == MapGet(Table, k)
Evaluated == call = "actionEVsFinite"

RECURSIVE SumTerms(_, _)
SumTerms(f, i) ==
  IF i > Len(RANKS) THEN Zero ELSE Add(f[RANKS[i]], SumTerms(f, i + 1))

\* the shoe s with one card of rank r taken out
Without(s, r) == [s EXCEPT ![r] = @ - 1]

\* the Stand EV of the hand h on the shoe s, by a call of evStand
StandEV(h, c, s) == Run(s, evStandCall(h, c.upcard, c.rules)).ret

\* the sum over the ranks r left in s of (count(r)/total) x V[r]
Expect(s, V) ==
  SumTerms([r \in RankSet |->
              IF s[r] > 0 THEN Mul(Q(s[r], shoeTotal(s)), V[r]) ELSE Zero], 1)

\* C1: a busted hand's table has Stand = -1 and none of Hit, Double, Split,
\* Surrender.
C1_BustedTable ==
  (Evaluated /\ isBust(hand)) =>
    /\ HasKey("Stand") /\ Value("Stand") = MinusOne
    /\ \A k \in {"Hit", "Double", "Split", "Surrender"} : ~HasKey(k)

\* the probability that the banker's second card makes a two-card 21
PBankerNatural(up, s) ==
  IF shoeTotal(s) = 0 THEN Zero
  ELSE IF up = "A" THEN Q(s["10"] + s["J"] + s["Q"] + s["K"], shoeTotal(s))
  ELSE IF up \in TenRanks THEN Q(s["A"], shoeTotal(s))
  ELSE Zero

\* the value evInitialBlackjack computed in the call that returned
NaturalValue == IF Evaluated THEN Value("Blackjack") ELSE run.ret

\* C2: for an initial natural the value of evInitialBlackjack is
\* (1 - P(banker natural)) x blackjackPays, a banker natural being a two-card
\* 21; against an upcard 2 to 9 and a non-empty shoe it is blackjackPays.
C2_NaturalValue ==
  (/\ call \in {"actionEVsFinite", "bestActionEV", "evInitialBlackjack"}
   /\ isBlackjack(hand) /\ ctx.splitDepth = 0) =>
    /\ NaturalValue =
         Mul(Sub(One, PBankerNatural(ctx.upcard, pre)), ctx.rules.blackjackPays)
    /\ (ctx.upcard \in {"2", "3", "4", "5", "6", "7", "8", "9"} /\ shoeTotal(pre) > 0)
         => NaturalValue = ctx.rules.blackjackPays

\* C3: when a call of actionEVsFinite, dealerOutcomeProbs, evStand or
\* bestActionEV has returned, every rank's count is what it was before the
\* call, and no drawn card is left without its undraw.
C3_ShoeRestored ==
  call # "none" => (shoe = pre /\ run.held = 0)

C3_Witness ==
  /\ call \in {"actionEVsFinite", "bestActionEV", "evStand", "dealerOutcomeProbs"}
  /\ Returned /\ run.draws >= 10 /\ shoe = pre /\ shoeTotal(pre) >= 3

\* the probabilities of a distribution, summed
RECURSIVE DistSumFrom(_, _)
DistSumFrom(dist, i) ==
  IF i > Len(DistKeys) THEN Zero
  ELSE Add(IF DistKeys[i] \in DOMAIN dist THEN dist[DistKeys[i]] ELSE Zero,
           DistSumFrom(dist, i + 1))

DistSum(dist) == DistSumFrom(dist, 1)

\* the hard total (every ace 1) of the upcard and all the cards of the shoe
RECURSIVE HardOf(_, _)
HardOf(s, i) ==
  IF i > Len(RANKS) THEN 0
  ELSE s[RANKS[i]] * (IF RANKS[i] = "A" THEN 1 ELSE rankValue(RANKS[i])) + HardOf(s, i + 1)

HardOfAll(up, s) == (IF up = "A" THEN 1 ELSE rankValue(up)) + HardOf(s, 1)

C5_ShoeInvariant ==
  /\ run.lo >= 0
  /\ run.hi <= 4 * ctx.rules.decks
  /\ ~run.imb
  /\ ~run.zd

C5_Witness ==
  /\ Evaluated /\ Returned /\ run.draws >= 10
  /\ shoeTotal(pre) >= 3 /\ run.lo = 0 /\ run.hi = MaxCount(pre)

\* C6: for an initial two-card natural at split depth 0 the best move taken
\* from the table is none of Stand, Hit, Double, Surrender, Split, and the
\* best EV is the value of evInitialBlackjack.
C6_NaturalBypassesTree ==
  (Evaluated /\ isBlackjack(hand) /\ ctx.splitDepth = 0) =>
    /\ bestMoveFrom(Table).move \notin {"Stand", "Hit", "Double", "Surrender", "Split"}
    /\ bestMoveFrom(Table).ev = Value("Blackjack")

AcesSplitSum(c, s) ==
  Expect(s, [r \in RankSet |->
               IF s[r] > 0
               THEN Add(StandEV(<<"A", r>>, c, Without(s, r)),
                        StandEV(<<"A", r>>, c, Without(s, r)))
               ELSE Zero])

C8_SplitAcesStandOnly ==
  (Evaluated /\ hand = <<"A", "A">> /\ ctx.rules.splitAcesOneCardOnly
     /\ HasKey("Split")) =>
    Value("Split") = AcesSplitSum(ctx, pre)

C8_Witness ==
  /\ Evaluated /\ Returned /\ hand = <<"A", "A">> /\ ctx.rules.splitAcesOneCardOnly
  /\ HasKey("Split") /\ shoeTotal(pre) >= 3
  /\ Value("Split") = AcesSplitSum(ctx, pre) /\ Value("Split") # Zero

\* C9: Double is in the table iff the hand has two cards, canDouble is true and
\* rules.doubleAllowed is true; its value is 2 x the sum over the ranks r left
\* of (count(r)/total) x StandEV(hand + r) on the shoe without r.
DoubleSum(h, c, s) ==
  Mul(Two, Expect(s, [r \in RankSet |->
                        IF s[r] > 0 THEN StandEV(Append(h, r), c, Without(s, r))
                        ELSE Zero]))

C9_Double ==
  Evaluated =>
    /\ HasKey("Double") <=>
         (Len(hand) = 2 /\ ctx.canDouble /\ ctx.rules.doubleAllowed)
    /\ HasKey("Double") => Value("Double") = DoubleSum(hand, ctx, pre)

C9_Witness ==
  /\ Evaluated /\ Returned /\ HasKey("Double") /\ shoeTotal(pre) >= 3
  /\ Value("Double") = DoubleSum(hand, ctx, pre) /\ Value("Double") # Zero

\* the same evaluation under the same rules with late surrender off
NoSurrender == [ctx EXCEPT !.rules.lateSurrender = FALSE]

RECURSIVE Entries(_, _)
Entries(t, i) ==
  IF i > Len(t) THEN <<>>
  ELSE (IF t[i].k = "Surrender" THEN <<>> ELSE <<t[i]>>) \o Entries(t, i + 1)

\* C10: Surrender is in the table iff rules.lateSurrender is true, the hand has
\* two cards and the split depth is 0; its value is -0.5, and it costs no draw:
\* the evaluation draws as often as, and finds every other entry as, the
\* evaluation with late surrender off.
C10_Surrender ==
  Evaluated =>
    /\ HasKey("Surrender") <=>
         (ctx.rules.lateSurrender /\ Len(hand) = 2 /\ ctx.splitDepth = 0)
    /\ HasKey("Surrender") =>
         /\ Value("Surrender") = MinusHalf
         /\ LET other == Run(pre, actionEVsFiniteCall(hand, NoSurrender))
            IN other.draws = run.draws /\ other.ret = Entries(Table, 1)

C10_Witness ==
  /\ Evaluated /\ Returned /\ HasKey("Surrender") /\ Value("Surrender") = MinusHalf
  /\ run.draws >= 10 /\ bestMoveFrom(Table).move = "Surrender"

\* the position of the key k in the table t
KeyIndex(t, k) == CHOOSE i \in 1..Len(t) : t[i].k = k

ActionOrder == <<"Stand", "Hit", "Double", "Surrender", "Split", "Blackjack">>
OrderIndex(k) == CHOOSE i \in 1..Len(ActionOrder) : ActionOrder[i] = k

\* C11: from a non-empty table bestMoveFrom returns a key of the table whose
\* value is >= every other value, with that value as ev, and among the keys of
\* maximal value the one inserted first; the keys are inserted in the order
\* Stand, Hit, Double, Surrender, Split, Blackjack.
C11_ArgMaxFirst ==
  (Evaluated /\ Len(Table) > 0) =>
    LET b == bestMoveFrom(Table)
    IN /\ HasKey(b.move) /\ b.ev = Value(b.move)
       /\ \A i \in 1..Len(Table) :
            /\ Le(Table[i].v, b.ev)
            /\ Table[i].v = b.ev => KeyIndex(Table, b.move) <= i
       /\ \A i, j \in 1..Len(Table) :
            i < j => OrderIndex(Table[i].k) < OrderIndex(Table[j].k)

C11_Witness ==
  /\ Evaluated /\ Returned /\ Len(Table) >= 4
  /\ bestMoveFrom(Table).move = "Hit"
  /\ \E i \in 1..Len(Table) : Table[i].k # "Hit" /\ Table[i].v = Value("Hit")

\* the copies of rank r shown on the table: in the hands and as the upcard
RECURSIVE ShownIn(_, _, _)
ShownIn(hs, r, i) ==
  IF i > Len(hs) THEN 0
  ELSE Cardinality({j \in 1..Len(hs[i]) : hs[i][j] = r}) + ShownIn(hs, r, i + 1)

Shown(r) == ShownIn(app.hands, r, 1) + (IF app.dealerUp = r THEN 1 ELSE 0)

\* the full shoe less every shown card, each taken out once
Snapshot ==
  [r \in RankSet |->
     IF makeFullShoe(app.rules.decks)[r] > Shown(r)
     THEN makeFullShoe(app.rules.decks)[r] - Shown(r) ELSE 0] @@ <<>>

\* the table of hand i evaluated on its own against the snapshot
Alone(i) ==
  Run(Snapshot,
      actionEVsFiniteCall(app.hands[i],
                          AppCtx(app.hands[i], app.rules, app.dealerUp))).ret

RECURSIVE BestSum(_)
BestSum(n) ==
  IF n = 0 THEN Zero
  ELSE Add(BestSum(n - 1), bestMoveFrom(app.perHand[n].evs).ev)

\* C12: every render evaluates each hand against the one shoe that has every
\* hand's cards and the upcard removed once: the counts each hand is given are
\* that snapshot, its table is the table of the hand evaluated alone on the
\* snapshot (so equal hands have equal tables wherever they sit), and totalEV
\* is the sum of the hands' best EVs.
C12_SharedSnapshot ==
  call = "render" =>
    /\ Len(app.perHand) = Len(app.hands)
    /\ \A r \in RankSet : pre[r] = Snapshot[r]
    /\ \A i \in 1..Len(app.hands) :
         /\ app.perHand[i].given = pre
         /\ app.perHand[i].evs = Alone(i)
         /\ app.perHand[i].best = bestMoveFrom(app.perHand[i].evs)
         /\ \A j \in 1..Len(app.hands) :
              app.hands[i] = app.hands[j] => app.perHand[i].evs = app.perHand[j].evs
    /\ app.totalEV = BestSum(Len(app.hands))

C12_Witness ==
  /\ call = "render"
  /\ shoeTotal(pre) > 0
  /\ \E i, j \in 1..Len(app.hands) :
       /\ i < j
       /\ app.hands[i] = app.hands[j]
       /\ Len(app.perHand[i].evs) >= 4
       /\ app.perHand[i].best.ev # Zero
       /\ \E k \in 1..Len(app.hands) :
            /\ Len(app.perHand[k].evs) >= 2
            /\ app.perHand[k].evs # app.perHand[i].evs

\* C13: a call of actionEVsFinite made in a render, after whatever evaluations
\* of other hands and earlier renders ran before it, returns the table that a
\* call with the same hand, context, rules and shoe counts returns when nothing
\* ran before it: the same keys in the same order with the same values.
C13_SameInputsSameTable ==
  call = "render" =>
    \A i \in 1..Len(app.hands) :
      LET alone == Run(app.perHand[i].given,
                       actionEVsFiniteCall(app.hands[i], app.perHand[i].ctx)).ret
      IN /\ Len(app.perHand[i].evs) = Len(alone)
         /\ \A n \in 1..Len(alone) :
              /\ app.perHand[i].evs[n].k = alone[n].k
              /\ app.perHand[i].evs[n].v = alone[n].v

\* a pair evaluated after the evaluations of other hands, with a Split value
\* read from sub-hands whose cache keys do not hold the rule that is off
C13_Witness ==
  /\ call = "render"
  /\ ~app.rules.doubleAllowed
  /\ Len(run.cache) > 0
  /\ \E i \in 2..Len(app.hands) :
       /\ app.hands[i] = <<"8", "8">>
       /\ MapHas(app.perHand[i].evs, "Split")
       /\ MapGet(app.perHand[i].evs, "Split") # Zero

\* a value that is a number: neither NaN nor an infinity
Finite(x) == x[2] > 0

\* C14: an evaluation never fails on an exhausted shoe. No draw is made on a
\* rank that has no card left, every call returns and every value of a table
\* is a finite number; on a shoe that is empty from the start the table is
\* still returned with Stand in it and with Hit, Double and Split, where
\* present, equal to 0, and the banker distribution returned is empty.
C14_EmptyShoe ==
  /\ call # "none" => Returned /\ ~run.zd
  /\ Evaluated =>
       /\ Len(Table) > 0
       /\ HasKey("Stand")
       /\ \A i \in 1..Len(Table) : Finite(Table[i].v)
  /\ (Evaluated /\ shoeTotal(pre) = 0) =>
       /\ run.draws = 0
       /\ HasKey("Hit") /\ Value("Hit") = Zero
       /\ HasKey("Double") => Value("Double") = Zero
       /\ HasKey("Split") => Value("Split") = Zero
  /\ (call = "dealerOutcomeProbs" /\ shoeTotal(pre) = 0) => run.ret = EmptyDist

C14_Witness ==
  /\ Evaluated
  /\ Returned
  /\ shoeTotal(pre) = 0
  /\ HasKey("Hit")
  /\ HasKey("Double")
  /\ HasKey("Split")

\* the value of a card with the ace as 1
LowValue(r) == IF r = "A" THEN 1 ELSE rankValue(r)

RECURSIVE LowSum(_, _)
LowSum(cards, n) == IF n = 0 THEN 0 ELSE LowSum(cards, n - 1) + LowValue(cards[n])

\* the hand with the cards at i and i + 1 exchanged
Swap(cards, i) == [cards EXCEPT ![i] = cards[i + 1], ![i + 1] = cards[i]]

\* C15: handTotals returns hard = the sum of the card values with every ace
\* as 1; best = hard + 10 if the hand holds an ace and hard + 10 <= 21, else
\* hard; isSoft exactly in that case; and the same result for the hand with
\* any two neighbouring cards exchanged (so for every order of the cards).
C15_HandTotals ==
  call = "handTotals" =>
    LET t == run.ret
        hard == LowSum(hand, Len(hand))
        soft == Includes(hand, "A") /\ hard + 10 <= 21
    IN /\ t.hard = hard
       /\ t.best = IF soft THEN hard + 10 ELSE hard
       /\ t.isSoft = soft
       /\ \A i \in 1..(Len(hand) - 1) : handTotals(Swap(hand, i)) = t

C15_Witness ==
  /\ call = "handTotals"
  /\ AceCount(hand) >= 2
  /\ Len(hand) >= 3
  /\ hand[1] # "A"
  /\ run.ret.isSoft
  /\ run.ret.best = 21

\* the banker of the rule: draws on a hard or soft total below 17 and on a soft
\* 17 when h17 is set, stops otherwise
BankerDraws(t, h17) ==
  \/ ~t.isSoft /\ t.best < 17
  \/ t.isSoft /\ t.best < 17
  \/ t.isSoft /\ t.best = 17 /\ h17

\* the ranks that have a card in s
Live(s) == SelectSeq(RANKS, LAMBDA r : s[r] > 0)

\* the probability that the banker holding cards on the shoe s ends on key k:
\* BankerEnds for the hand as it is, BankerNext from the i-th live rank on
RECURSIVE BankerEnds(_, _, _, _), BankerNext(_, _, _, _, _)
BankerEnds(cards, s, h17, k) ==
  LET t == handTotals(cards)
  IN IF t.best > 21 THEN (IF k = "bust" THEN One ELSE Zero)
     ELSE IF BankerDraws(t, h17) THEN BankerNext(cards, s, h17, k, 1)
     ELSE (IF k = TotalKey(t.best) THEN One ELSE Zero)

BankerNext(cards, s, h17, k, i) ==
  IF i > Len(Live(s)) THEN Zero
  ELSE LET r == Live(s)[i]
           p == Mul(Q(s[r], shoeTotal(s)),
                    BankerEnds(Append(cards, r), Without(s, r), h17, k))
       IN Add(p, BankerNext(cards, s, h17, k, i + 1))

\* the same from the upcard alone: the hole card is the first card drawn
BankerFrom(up, s, h17, k) == BankerNext(<<up>>, s, h17, k, 1)

\* C16: the distribution dealerOutcomeProbs returns is the distribution of the
\* banker that draws exactly on hard below 17, soft below 17 and soft 17 with
\* dealerHitsSoft17, and stops otherwise; its keys are among 17, 18, 19, 20,
\* 21 and bust, and a two-card 21 ends on 21 with probability 1.
C16_BankerRule ==
  call = "dealerOutcomeProbs" =>
    /\ Returned
    /\ DOMAIN run.ret \subseteq {DistKeys[i] : i \in 1..Len(DistKeys)}
    /\ \A i \in 1..Len(DistKeys) :
         LET k == DistKeys[i]
             p == BankerFrom(ctx.upcard, pre, ctx.rules.dealerHitsSoft17, k)
         IN IF k \in DOMAIN run.ret THEN run.ret[k] = p ELSE p = Zero
    /\ (shoeTotal(pre) = 1 /\ \E r \in RankSet :
          pre[r] = 1 /\ isBlackjack(<<ctx.upcard, r>>))
         => run.ret = ("21" :> One)

C16_Witness ==
  /\ call = "dealerOutcomeProbs"
  /\ Returned
  /\ ctx.rules.dealerHitsSoft17
  /\ ctx.upcard = "A"
  /\ pre["6"] = 1
  /\ pre["10"] = 1
  /\ shoeTotal(pre) >= 3
  /\ Cardinality(DOMAIN run.ret) >= 3

\* the EV of the sub-hand [card, r] of the split of hand, on the shoe s that is
\* left once its completion card r is out
SubHandEV(card, r, s) == Run(s, splitChild(card, r, hand, ctx)).ret

\* the split with the completions drawn one after the other: the first sub-hand
\* gets r1 from the shoe s, the second gets r2 from the shoe without r1
RECURSIVE SecondFrom(_, _), FirstFrom(_, _)
SecondFrom(s, i) ==
  IF i > Len(Live(s)) THEN Zero
  ELSE LET r2 == Live(s)[i]
       IN Add(Mul(Q(s[r2], shoeTotal(s)), SubHandEV(hand[2], r2, Without(s, r2))),
              SecondFrom(s, i + 1))

FirstFrom(s, i) ==
  IF i > Len(Live(s)) THEN Zero
  ELSE LET r1 == Live(s)[i]
           s1 == Without(s, r1)
       IN Add(Mul(Q(s[r1], shoeTotal(s)),
                  Add(SubHandEV(hand[1], r1, s1), SecondFrom(s1, 1))),
              FirstFrom(s, i + 1))

\* C17: the Split value is the value of the two sub-hands completed one after
\* the other from the evolving shoe: each sub-hand has its own completion
\* card, and the second completion is weighted by the fractions of the shoe
\* from which the first completion card has been removed.
C17_SplitSequential ==
  (Evaluated /\ Returned /\ canSplit(hand) /\ HasKey("Split")) =>
    Value("Split") = FirstFrom(pre, 1)

\* the cards of a hand key
KeyCards(hk) ==
  LET n(r) == IF r \in DOMAIN hk THEN hk[r] ELSE 0
  IN SumCounts([r \in RankSet |-> n(r)], 1)

\* the keys under which the evaluation cached two-card hands: the sub-hands of
\* its splits (every other cached hand has had a card added by a hit)
SubHandKeys == {run.cache[i].k : i \in {j \in 1..Len(run.cache) : KeyCards(run.cache[j].k.hand) = 2}}

\* C18: the context of the sub-hands of a split has the parent's depth + 1,
\* canDouble = the double-after-split setting, isSplitAces = a pair of aces
\* was split, canSplit = the parent's depth is below rules.resplitPairs and
\* (the pair is not aces or rules.resplitAces), and every other field as in
\* the parent; and these are the contexts under which the evaluation of a
\* pair evaluated its sub-hands, at every depth of resplitting.
C18_ChildContext ==
  canSplit(hand) =>
    /\ LET c == childCtx(hand, ctx)
       IN /\ c.splitDepth = ctx.splitDepth + 1
          /\ c.canDouble = ctx.doubleAfterSplit
          /\ c.isSplitAces = (hand[1] = "A" /\ hand[2] = "A")
          /\ c.canSplit = (ctx.splitDepth < ctx.rules.resplitPairs
                             /\ (~(hand[1] = "A" /\ hand[2] = "A") \/ ctx.rules.resplitAces))
          /\ c.rules = ctx.rules
          /\ c.upcard = ctx.upcard
          /\ c.doubleAfterSplit = ctx.doubleAfterSplit
          /\ DOMAIN c = DOMAIN ctx
          /\ \A r \in RankSet :
               LET g == splitChild(hand[1], r, hand, ctx)
               IN g.fn = "bestActionEV" => g.ctx = c /\ g.hand = <<hand[1], r>>
    /\ (Evaluated /\ Returned) =>
         \A k \in SubHandKeys :
           /\ k.sd >= ctx.splitDepth + 1
           /\ k.cd = ctx.doubleAfterSplit
           /\ k.sa = (hand[1] = "A" /\ hand[2] = "A")
           /\ k.cs = (k.sd - 1 < ctx.rules.resplitPairs
                        /\ (~(hand[1] = "A" /\ hand[2] = "A") \/ ctx.rules.resplitAces))
           /\ k.up = ctx.upcard
           /\ k.H17 = ctx.rules.dealerHitsSoft17
           /\ k.SR = ctx.rules.lateSurrender

C18_Witness ==
  /\ Evaluated
  /\ Returned
  /\ canSplit(hand)
  /\ ctx.canDouble # ctx.doubleAfterSplit
  /\ \E k \in SubHandKeys : k.sd = ctx.splitDepth + 1 /\ k.cs
  /\ \E k \in SubHandKeys : k.sd = ctx.splitDepth + 2 /\ ~k.cs

RECURSIVE HandOfFrom(_, _)
HandOfFrom(hk, i) ==
  IF i > Len(RANKS) THEN <<>>
  ELSE Copies(RANKS[i], IF RANKS[i] \in DOMAIN hk THEN hk[RANKS[i]] ELSE 0)
         \o HandOfFrom(hk, i + 1)

HandOf(hk) == HandOfFrom(hk, 1)

\* the same cards last to first, and with a king for every ten
Reverse(h) == [i \in 1..Len(h) |-> h[Len(h) + 1 - i]] \o <<>>
Kings(h) == [i \in 1..Len(h) |-> IF h[i] = "10" THEN "K" ELSE h[i]] \o <<>>

\* the hands that share the composition hk
Variants(hk) ==
  {HandOf(hk), Reverse(HandOf(hk)), Kings(HandOf(hk)), Reverse(Kings(HandOf(hk)))}

\* the context of the key k inside the evaluation of ctx
CtxOf(k) ==
  [ctx EXCEPT !.canDouble = k.cd, !.canSplit = k.cs, !.splitDepth = k.sd,
              !.isSplitAces = k.sa]

\* C20: the cache of an actionEVsFinite call is transparent: the table is the
\* table the same call returns when nothing is ever read from a cache, and
\* the value cached under a key is the value bestActionEV computes without a
\* cache for every hand of that composition (in either order, tens or kings),
\* the context flags of the key and the shoe of the key.
C20_CacheTransparent ==
  (Evaluated /\ Returned) =>
    /\ Table = RunUncached(pre, actionEVsFiniteCall(hand, ctx)).ret
    /\ \A i \in 1..Len(run.cache) :
         LET e == run.cache[i]
         IN \A h \in Variants(e.k.hand) :
              /\ DOMAIN e.k.shoe = RankSet
              /\ CacheKey(h, CtxOf(e.k), e.k.shoe) = e.k
              /\ e.v = RunUncached(e.k.shoe, bestActionEVCall(h, CtxOf(e.k))).ret

\* an evaluation that read values from its cache: it took fewer steps than
\* the evaluation without one
C20_Witness ==
  /\ Evaluated
  /\ Returned
  /\ Len(run.cache) >= 8
  /\ run.steps < RunUncached(pre, actionEVsFiniteCall(hand, ctx)).steps
  /\ \E i \in 1..Len(run.cache) :
       /\ "10" \in DOMAIN run.cache[i].k.hand
       /\ Len(HandOf(run.cache[i].k.hand)) >= 3
       /\ run.cache[i].v # MinusOne

\* the pairs the evaluation cached at the depth d: sub-hands that are pairs
\* again, with the shoe they were evaluated on
PairKeysAt(d) ==
  {run.cache[i].k : i \in {j \in 1..Len(run.cache) :
      /\ run.cache[j].k.sd = d
      /\ KeyCards(run.cache[j].k.hand) = 2
      /\ Cardinality(DOMAIN run.cache[j].k.hand) = 1}}

\* C21: in an evaluation started by actionEVsFinite at split depth 0, no
\* context has a split depth above rules.resplitPairs + 1 (neither a childCtx
\* a split builds nor the context of any bestActionEV call), at most
\* rules.resplitPairs + 1 splits are taken one inside the other, and at most
\* one of them is a split of aces when rules.resplitAces is false.
C21_SplitDepthBound ==
  (Evaluated /\ Returned /\ ctx.splitDepth = 0) =>
    /\ run.sd <= ctx.rules.resplitPairs + 1
    /\ run.splits <= ctx.rules.resplitPairs + 1
    /\ \A i \in 1..Len(run.cache) :
         run.cache[i].k.sd <= ctx.rules.resplitPairs + 1
    /\ ~ctx.rules.resplitAces => run.aceSplits <= 1

\* an evaluation that split, split a sub-hand again, and at the depth
\* resplitPairs + 1 held a pair and cards to split it with, and went no deeper
C21_Witness ==
  /\ Evaluated
  /\ Returned
  /\ ctx.splitDepth = 0
  /\ ctx.rules.resplitPairs = 1
  /\ run.sd = 2
  /\ run.splits = 2
  /\ \E k \in PairKeysAt(2) : ~k.cs /\ shoeTotal(k.shoe) > 0

\* the Stand EV of the hand on the shoe the call began with, in the arithmetic
\* of the call
StandOnPre ==
  Steps(Depth, [Start(pre) EXCEPT !.stack = <<evStandCall(hand, ctx.upcard, ctx.rules)>>,
                                  !.ieee = run.ieee]).ret

InitialNatural == Len(hand) = 2 /\ ctx.splitDepth = 0 /\ isBlackjack(hand)

BestAtLeastMinusOne == Le(MinusOne, run.ret)

BestAtLeastStand == (~isBust(hand) /\ ~InitialNatural) => Le(StandOnPre, run.ret)

BestAtLeastSurrender == surrenderOpen(hand, ctx) => Le(MinusHalf, run.ret)

\* C22: the value bestActionEV returns is >= -1; for a hand that is not bust
\* and not an initial natural it is >= the Stand EV of the hand on the same
\* shoe; and it is >= -0.5 whenever surrender is available for the hand.
C22_BestBounds ==
  (call = "bestActionEV" /\ Returned) =>
    /\ BestAtLeastMinusOne
    /\ BestAtLeastStand
    /\ BestAtLeastSurrender

====
